---- MODULE Spec2Model ----
(***************************************************************************)
(* R installation discovery and resolution of the desktop front end        *)
(* (src/cpp/desktop/DesktopRVersion.cpp), non-conda Windows build.         *)
(*                                                                         *)
(* A path is a sequence of segments ("C:/PF/R/A/bin" is                    *)
(* <<"C:","PF","R","A","bin">>), the empty QString is <<>>.  The file      *)
(* system is case-insensitive and case-preserving, QString comparisons are *)
(* the ones the code asks for (case-sensitive ==, or Qt::CaseInsensitive). *)
(* A packed 32-bit version is the pair <<HIWORD, LOWORD>>.                 *)
(***************************************************************************)
EXTENDS Integers, Sequences, FiniteSets, TLC

VARIABLES
    env,              \* the host: environment variables, cwd, registry, R.dll files
    rBinDir,          \* options.rBinDir(): the persisted previous choice
    renderingEngine,  \* options.desktopRenderingEngine(): the persisted auxiliary setting
    pc,               \* position of detectRVersion: "idle", "dialog" (blocked in exec), "done"
    forceUi,          \* argument of the top-level call in progress
    depth,            \* recursion depth of the detectRVersion frame that is running
    result,           \* value returned by the top-level call (an RVersion)
    dlg,              \* what the running frame handed to ChooseRHome
    hist,             \* history of the top-level call in progress
    probe             \* last stand-alone call of autoDetect and its result

vars == <<env, rBinDir, renderingEngine, pc, forceUi, depth, result, dlg, hist, probe>>

-----------------------------------------------------------------------------
(* Strings and paths *)

\* Qt::CaseInsensitive folding of one path segment
lower(s) ==
    CASE s = "C:" -> "c:"
      [] s = "PF" -> "pf"
      [] s = "R" -> "r"
      [] s = "A" -> "a"
      [] s = "B" -> "b"
      [] s = "W" -> "w"
      [] s = "BIN" -> "bin"
      [] s = "Gone" -> "gone"
      [] OTHER -> s

\* position of a folded segment in code-point order; "/" sorts before every
\* character that occurs in a segment, so comparing segment by segment is
\* comparing the joined strings character by character
rank(s) ==
    CASE s = "a" -> 1
      [] s = "b" -> 2
      [] s = "bin" -> 3
      [] s = "c:" -> 4
      [] s = "gone" -> 5
      [] s = "pf" -> 6
      [] s = "r" -> 7
      [] s = "w" -> 8
      [] s = "x64" -> 9

Fold(p) == [i \in 1..Len(p) |-> lower(p[i])]

RECURSIVE compareFrom(_, _, _)
compareFrom(p, q, i) ==
    IF i > Len(p) /\ i > Len(q) THEN 0
    ELSE IF i > Len(p) THEN -1
    ELSE IF i > Len(q) THEN 1
    ELSE IF rank(lower(p[i])) < rank(lower(q[i])) THEN -1
    ELSE IF rank(lower(p[i])) > rank(lower(q[i])) THEN 1
    ELSE compareFrom(p, q, i + 1)

\* sign of QString::compare(p, q, Qt::CaseInsensitive)
compareCI(p, q) == compareFrom(p, q, 1)

isDrive(s) == lower(s) = "c:"

\* QDir::isAbsolute
isAbsolute(p) == Len(p) > 0 /\ isDrive(p[1])

\* QDir::dirName: the last segment, empty for a root
dirName(p) == IF Len(p) <= 1 THEN "" ELSE p[Len(p)]

\* QDir::cleanPath(dir.filePath("..")): the root is its own parent
parentDir(p) == IF Len(p) <= 1 THEN p ELSE SubSeq(p, 1, Len(p) - 1)

\* QDir(path).absolutePath(): QDir("") is ".", a relative path is taken from cwd
absolutePath(p) == IF isAbsolute(p) THEN p ELSE env.cwd \o p

-----------------------------------------------------------------------------
(* Files *)

IMAGE_NT_SIGNATURE == 17744          \* 0x4550
IMAGE_FILE_MACHINE_I386 == 332       \* 0x014C
IMAGE_FILE_MACHINE_AMD64 == 34404    \* 0x8664

\* What the code reads of a file R.dll: dwFileVersionMS of its version
\* resource (<<0,0>> when it has none), the signature and machine type found
\* through the offset at 0x3C, and whether all three reads were complete.
\* After a short read the variable read into holds an arbitrary value.
NoFile == [present |-> FALSE, version |-> <<0, 0>>, signature |-> 0, machine |-> 0, good |-> FALSE]

Dll(v, sig, m, g) == [present |-> TRUE, version |-> v, signature |-> sig, machine |-> m, good |-> g]

\* the file R.dll in directory dir, looked up without regard to case
fileIn(dir) ==
    LET hits == {d \in DOMAIN env.files : Fold(d) = Fold(absolutePath(dir))}
    IN  IF hits = {} THEN NoFile ELSE env.files[CHOOSE d \in hits : TRUE]

\* QDir(dir).exists("R.dll")
existsDll(dir) == fileIn(dir).present

\* getVersion of the path of a file: file is what is at that path
getVersion(file) ==
    IF ~file.present THEN <<0, 0>> ELSE file.version

ArchNone == 0
ArchX86 == 1
ArchX64 == 2
ArchUnknown == 3

Architectures == {ArchNone, ArchX86, ArchX64, ArchUnknown}

\* getArch of the path of a file: file is what is at that path, signature
\* and machine being what the reads of header and arch give and good what
\* stream.good() gives after them (getArchOfBytes below reads the bytes)
getArch(file) ==
    IF ~file.present THEN ArchNone
    ELSE IF file.signature # IMAGE_NT_SIGNATURE THEN ArchNone
    ELSE IF ~file.good THEN ArchNone
    ELSE IF file.machine = IMAGE_FILE_MACHINE_I386 THEN ArchX86
    ELSE IF file.machine = IMAGE_FILE_MACHINE_AMD64 THEN ArchX64
    ELSE ArchUnknown

\* getArch on the bytes of the file.  A stream is the read position and
\* whether it is good(); a list of bytes stands for an integer, lowest byte
\* first, as the reads of a little-endian build fill it.

e_lfanew == 60                       \* 0x3C

\* the value of 4 bytes as a stream offset (no file of the model holds an
\* offset field whose highest byte is above 127)
le32(bytes) == bytes[1] + 256 * bytes[2] + 65536 * bytes[3] + 16777216 * bytes[4]

\* le16 taking the first byte as the high one
be16(bytes) == 256 * bytes[1] + bytes[2]

le16(bytes) == bytes[1] + 256 * bytes[2]

\* the bytes of 0x00004550 in memory
signatureBytes == <<IMAGE_NT_SIGNATURE % 256, IMAGE_NT_SIGNATURE \div 256, 0, 0>>

\* ifstream(path): at the start, good unless the file cannot be opened
openStream(opens) == [pos |-> 0, ok |-> opens]

\* stream.seekg(offset, ios::beg): nothing on a failed stream; a position
\* past the end is taken
seekg(stream, offset) ==
    IF ~stream.ok THEN stream ELSE [stream EXCEPT !.pos = offset]

\* read that leaves the stream good after a short read
readStaysGood(stream, data, n, uninit) ==
    IF stream.pos + n <= Len(data)
    THEN [val |-> SubSeq(data, stream.pos + 1, stream.pos + n),
          stream |-> [stream EXCEPT !.pos = stream.pos + n]]
    ELSE [val |-> uninit, stream |-> stream]

\* read<T> with sizeof(T) = n from data: uninit is what val holds before
\* the read; a failed stream reads nothing, a short read stores the bytes
\* there are and sets failbit and eofbit
read(stream, data, n, uninit) ==
    IF ~stream.ok THEN [val |-> uninit, stream |-> stream]
    ELSE IF stream.pos + n <= Len(data)
    THEN [val |-> SubSeq(data, stream.pos + 1, stream.pos + n),
          stream |-> [stream EXCEPT !.pos = stream.pos + n]]
    ELSE LET got == IF stream.pos < Len(data)
                    THEN SubSeq(data, stream.pos + 1, Len(data)) ELSE <<>>
         IN  [val |-> got \o SubSeq(uninit, Len(got) + 1, n),
              stream |-> [pos |-> Len(data), ok |-> FALSE]]

\* the switch on the machine type
archOfMachine(arch) ==
    IF arch = IMAGE_FILE_MACHINE_I386 THEN ArchX86
    ELSE IF arch = IMAGE_FILE_MACHINE_AMD64 THEN ArchX64
    ELSE ArchUnknown

\* getArch of a path: exists and opens say whether a file is there and can
\* be opened, data is its bytes, u1, u2 and u3 are what the variables
\* headerOffset, header and arch hold before they are read into
getArchOfBytes(exists, opens, data, u1, u2, u3) ==
    IF ~exists THEN ArchNone
    ELSE LET headerOffset == read(seekg(openStream(opens), e_lfanew), data, 4, u1)
             header == read(seekg(headerOffset.stream, le32(headerOffset.val)), data, 4, u2)
             arch == read(header.stream, data, 2, u3)
         IN  IF header.val # signatureBytes THEN ArchNone
             ELSE IF ~arch.stream.ok THEN ArchNone
             ELSE archOfMachine(le16(arch.val))

RSTUDIO_R_MAJOR_VERSION_REQUIRED == 3
RSTUDIO_R_MINOR_VERSION_REQUIRED == 0
RSTUDIO_R_PATCH_VERSION_REQUIRED == 1

HIWORD(v) == v[1]
LOWORD(v) == v[2]

\* confirmMinVersion asking both halves to reach the required ones
confirmMinVersionBothHalves(version, major, minor) ==
    HIWORD(version) >= major /\ LOWORD(version) >= minor

confirmMinVersion(version, major, minor) ==
    IF HIWORD(version) > major THEN TRUE
    ELSE IF HIWORD(version) < major THEN FALSE
    ELSE LOWORD(version) >= minor

-----------------------------------------------------------------------------
(* RVersion *)

\* binDirToHomeDir looking for bin in the last segment only
binDirToHomeDirOneLevel(binDir) ==
    IF binDir = <<>> THEN <<>>
    ELSE IF ~isAbsolute(binDir) THEN <<>>
    ELSE IF dirName(binDir) = "bin" THEN parentDir(binDir) ELSE <<>>

binDirToHomeDir(binDir) ==
    IF binDir = <<>> THEN <<>>
    ELSE IF ~isAbsolute(binDir) THEN <<>>
    ELSE LET dir == IF dirName(binDir) # "bin" THEN parentDir(binDir) ELSE binDir
         IN  IF dirName(dir) = "bin" THEN parentDir(dir) ELSE <<>>

\* the constructor, dll being the file at dllPath
construct(binDir, dll) ==
    [binDir |-> binDir,
     homeDir |-> binDirToHomeDir(binDir),
     version |-> IF binDir # <<>> THEN getVersion(dll) ELSE <<0, 0>>,
     arch |-> IF binDir # <<>> THEN getArch(dll) ELSE ArchNone]

RVersion(binDir) == construct(binDir, fileIn(binDir))

isEmpty(r) == r.binDir = <<>>

\* validate without the test of the home directory
validateIgnoringHome(r) ==
    IF isEmpty(r) THEN "ValidateNotFound"
    ELSE IF ~existsDll(r.binDir) THEN "ValidateNotFound"
    ELSE IF ~confirmMinVersion(r.version, RSTUDIO_R_MAJOR_VERSION_REQUIRED,
                               RSTUDIO_R_MINOR_VERSION_REQUIRED + RSTUDIO_R_PATCH_VERSION_REQUIRED)
         THEN "ValidateVersionTooOld"
    ELSE "ValidateSuccess"

validate(r) ==
    IF isEmpty(r) \/ r.homeDir = <<>> THEN "ValidateNotFound"
    ELSE IF ~existsDll(r.binDir) THEN "ValidateNotFound"
    ELSE IF ~confirmMinVersion(r.version, RSTUDIO_R_MAJOR_VERSION_REQUIRED,
                               RSTUDIO_R_MINOR_VERSION_REQUIRED + RSTUDIO_R_PATCH_VERSION_REQUIRED)
         THEN "ValidateVersionTooOld"
    ELSE "ValidateSuccess"

isValid(r) == validate(r) = "ValidateSuccess"

\* static_cast<int>(version) as <<high half, low half>>, high half signed
toInt(v) == <<IF v[1] >= 32768 THEN v[1] - 65536 ELSE v[1], v[2]>>

\* sign of -(static_cast<int>(a) - static_cast<int>(b)); the subtraction and
\* the negation are done in int, and where either overflows the result is
\* the one the build gives: wraps says whether it wraps around (TRUE) or was
\* compiled as the comparison of the two ints (FALSE). A difference of
\* exactly 2^31 or -2^31 wraps to INT_MIN, whose negation wraps to INT_MIN.
versionOrder(a, b, wraps) ==
    LET x == toInt(a)
        y == toInt(b)
        borrow == IF x[2] < y[2] THEN 1 ELSE 0
        hi == x[1] - y[1] - borrow
        lo == x[2] - y[2] + 65536 * borrow
        exact == IF hi > 0 \/ (hi = 0 /\ lo > 0) THEN -1
                 ELSE IF hi = 0 /\ lo = 0 THEN 0 ELSE 1
    IN  IF hi >= -32768 /\ hi <= 32767 /\ ~(hi = -32768 /\ lo = 0) THEN exact
        ELSE IF ~wraps THEN exact
        ELSE IF hi > 32768 \/ (hi = 32768 /\ lo > 0) THEN 1
        ELSE -1

compareToWith(a, b, wraps) ==
    LET c1 == versionOrder(a.version, b.version, wraps)
        c2 == compareCI(a.homeDir, b.homeDir)
        c3 == -(a.arch - b.arch)
        c4 == compareCI(a.binDir, b.binDir)
    IN  IF c1 # 0 THEN c1
        ELSE IF c2 # 0 THEN c2
        ELSE IF c3 # 0 THEN c3
        ELSE IF c4 # 0 THEN c4
        ELSE 0

\* no two versions of the hosts below overflow the int subtraction
compareTo(a, b) == compareToWith(a, b, TRUE)

lessThan(a, b) == compareTo(a, b) < 0

\* operator== comparing the directories letter by letter
equalsCaseSensitive(a, b) == a.binDir = b.binDir

equals(a, b) == compareCI(a.binDir, b.binDir) = 0

-----------------------------------------------------------------------------
(* Candidate enumerators *)

\* the results of versionsFromRHome for the probed directories, in order;
\* QDir("") is the current directory
RECURSIVE probeDirs(_, _)
probeDirs(rHome, dirs) ==
    IF dirs = <<>> THEN <<>>
    ELSE LET tmp == rHome \o Head(dirs)
         IN  (IF existsDll(tmp) THEN <<RVersion(absolutePath(tmp))>> ELSE <<>>)
             \o probeDirs(rHome, Tail(dirs))

versionsFromRHome(rHome, results) ==
    results \o probeDirs(rHome, << <<"bin">>, <<"bin", "x64">> >>)

RECURSIVE insertSorted(_, _)
insertSorted(n, names) ==
    IF names = <<>> THEN <<n>>
    ELSE IF rank(lower(n)) < rank(lower(Head(names))) THEN <<n>> \o names
    ELSE <<Head(names)>> \o insertSorted(n, Tail(names))

RECURSIVE sortNames(_)
sortNames(S) ==
    IF S = {} THEN <<>>
    ELSE LET n == CHOOSE x \in S : TRUE
         IN  insertSorted(n, sortNames(S \ {n}))

\* QDir(dir).entryList(QDir::Dirs | QDir::NoDotAndDotDot): the names on
\* disk of the subdirectories of dir, sorted by name
entryList(dir) ==
    sortNames({d[Len(dir) + 1] : d \in
        {e \in DOMAIN env.files :
            /\ env.files[e].present
            /\ Len(e) > Len(dir)
            /\ Fold(SubSeq(e, 1, Len(dir))) = Fold(dir)}})

\* QDir(dir).exists() for a directory above an R.dll
dirExists(dir) == entryList(dir) # <<>>

RECURSIVE homesIn(_, _, _)
homesIn(rRoot, rDirs, results) ==
    IF rDirs = <<>> THEN results
    ELSE homesIn(rRoot, Tail(rDirs), versionsFromRHome(rRoot \o <<Head(rDirs)>>, results))

enumProgramFilesDir(progFiles, results) ==
    IF isAbsolute(progFiles) /\ dirExists(progFiles)
    THEN IF dirExists(progFiles \o <<"R">>)
         THEN homesIn(progFiles \o <<"R">>, entryList(progFiles \o <<"R">>), results)
         ELSE results
    ELSE results

\* QStringList::removeAll(QString()) then removeDuplicates(), both case-sensitive
RECURSIVE removeDuplicates(_, _)
removeDuplicates(list, seen) ==
    IF list = <<>> THEN <<>>
    ELSE IF Head(list) = <<>> \/ Head(list) \in seen THEN removeDuplicates(Tail(list), seen)
    ELSE <<Head(list)>> \o removeDuplicates(Tail(list), seen \cup {Head(list)})

RECURSIVE enumEach(_, _)
enumEach(progFiles, results) ==
    IF progFiles = <<>> THEN results
    ELSE enumEach(Tail(progFiles), enumProgramFilesDir(Head(progFiles), results))

enumProgramFiles(results) ==
    enumEach(removeDuplicates(<<env.ProgramFiles, env.ProgramW6432, env.ProgramFilesX86>>, {}),
             results)

HKEY_CURRENT_USER == "HKCU"
HKEY_LOCAL_MACHINE == "HKLM"
KEY_WOW64_32KEY == "32"
KEY_WOW64_64KEY == "64"

\* RegistryKey::open of Software\R-core\R in one scope and view
regOpen(key, flags) == env.reg[<<key, flags>>]

RECURSIVE enumSubkeys(_, _)
enumSubkeys(keys, results) ==
    IF keys = <<>> THEN results
    ELSE IF Head(keys).error THEN enumSubkeys(Tail(keys), results)
    ELSE IF Head(keys).InstallPath # <<>>
         THEN enumSubkeys(Tail(keys), versionsFromRHome(Head(keys).InstallPath, results))
    ELSE enumSubkeys(Tail(keys), results)

enumRegistryKey(architecture, key, results) ==
    IF architecture \notin {ArchX86, ArchX64} THEN results
    ELSE LET flags == IF architecture = ArchX86 THEN KEY_WOW64_32KEY ELSE KEY_WOW64_64KEY
             regKey == regOpen(key, flags)
         IN  IF regKey.open # "ok" THEN results
             ELSE enumSubkeys(regKey.keys, results)

\* the LOG_ERROR calls of the loop over the subkeys
RECURSIVE subkeysLog(_, _)
subkeysLog(key, keys) ==
    IF keys = <<>> THEN <<>>
    ELSE (IF Head(keys).error THEN <<[key |-> key, failed |-> "subkey"]>> ELSE <<>>)
         \o subkeysLog(key, Tail(keys))

\* enumRegistryLog logging every failure to open the key
enumRegistryLogsNotFound(architecture, key) ==
    IF architecture \notin {ArchX86, ArchX64} THEN <<>>
    ELSE LET flags == IF architecture = ArchX86 THEN KEY_WOW64_32KEY ELSE KEY_WOW64_64KEY
             regKey == regOpen(key, flags)
         IN  IF regKey.open # "ok" THEN <<[key |-> key, failed |-> "open"]>>
             ELSE subkeysLog(key, regKey.keys)

\* the LOG_ERROR calls of enumRegistry(architecture, key, pResults)
enumRegistryLog(architecture, key) ==
    IF architecture \notin {ArchX86, ArchX64} THEN <<>>
    ELSE LET flags == IF architecture = ArchX86 THEN KEY_WOW64_32KEY ELSE KEY_WOW64_64KEY
             regKey == regOpen(key, flags)
         IN  IF regKey.open = "notfound" THEN <<>>
             ELSE IF regKey.open # "ok" THEN <<[key |-> key, failed |-> "open"]>>
             ELSE subkeysLog(key, regKey.keys)

enumRegistry(results) ==
    enumRegistryKey(ArchX64, HKEY_LOCAL_MACHINE,
                    enumRegistryKey(ArchX64, HKEY_CURRENT_USER, results))

-----------------------------------------------------------------------------
(* Resolution policy *)

RECURSIVE removeInvalid(_)
removeInvalid(versions) ==
    IF versions = <<>> THEN <<>>
    ELSE (IF isValid(Head(versions)) THEN <<Head(versions)>> ELSE <<>>)
         \o removeInvalid(Tail(versions))

\* qSort(versions): the list ordered by operator<; records that compare
\* equal keep their order
RECURSIVE insertVersion(_, _)
insertVersion(v, sorted) ==
    IF sorted = <<>> THEN <<v>>
    ELSE IF lessThan(v, Head(sorted)) THEN <<v>> \o sorted
    ELSE <<Head(sorted)>> \o insertVersion(v, Tail(sorted))

RECURSIVE qSortFrom(_, _)
qSortFrom(versions, sorted) ==
    IF versions = <<>> THEN sorted
    ELSE qSortFrom(Tail(versions), insertVersion(Head(versions), sorted))

qSort(versions) == qSortFrom(versions, <<>>)

RECURSIVE removeAdjacentDuplicates(_)
removeAdjacentDuplicates(versions) ==
    IF Len(versions) < 2 THEN versions
    ELSE IF equals(versions[2], versions[1])
         THEN removeAdjacentDuplicates(<<versions[1]>> \o Tail(Tail(versions)))
    ELSE <<versions[1]>> \o removeAdjacentDuplicates(Tail(versions))

\* allRVersions without its last loop
keepUnsupported(versions) == versions

RECURSIVE removeUnsupported(_)
removeUnsupported(versions) ==
    IF versions = <<>> THEN <<>>
    ELSE (IF Head(versions).arch # ArchX64 THEN <<>> ELSE <<Head(versions)>>)
         \o removeUnsupported(Tail(versions))

\* every record the enumerators add to the seed, before any filtering
enumerated(versions) ==
    enumProgramFiles(enumRegistry(versionsFromRHome(env.R_HOME, versions)))

allRVersions(versions) ==
    removeUnsupported(removeAdjacentDuplicates(qSort(removeInvalid(enumerated(versions)))))

RECURSIVE firstValidOf(_, _)
firstValidOf(versions, architecture) ==
    IF versions = <<>> THEN RVersion(<<>>)
    ELSE IF isValid(Head(versions)) /\ Head(versions).arch = architecture THEN Head(versions)
    ELSE firstValidOf(Tail(versions), architecture)

detectPreferredFromRegistry(key, architecture) ==
    IF architecture \notin {ArchX86, ArchX64} THEN RVersion(<<>>)
    ELSE LET flags == IF architecture = ArchX86 THEN KEY_WOW64_32KEY ELSE KEY_WOW64_64KEY
             regKey == regOpen(key, flags)
         IN  IF regKey.open # "ok" THEN RVersion(<<>>)
             ELSE firstValidOf(versionsFromRHome(regKey.InstallPath, <<>>), architecture)

\* the LOG_ERROR calls of detectPreferredFromRegistry
detectPreferredFromRegistryLog(key, architecture) ==
    IF architecture \notin {ArchX86, ArchX64} THEN <<>>
    ELSE LET flags == IF architecture = ArchX86 THEN KEY_WOW64_32KEY ELSE KEY_WOW64_64KEY
             regKey == regOpen(key, flags)
         IN  IF regKey.open = "notfound" \/ regKey.open = "ok" THEN <<>>
             ELSE <<[key |-> key, failed |-> "open"]>>

RECURSIVE firstOfArch(_, _)
firstOfArch(versions, architecture) ==
    IF versions = <<>> THEN RVersion(<<>>)
    ELSE IF Head(versions).arch = architecture THEN Head(versions)
    ELSE firstOfArch(Tail(versions), architecture)

\* preferredOf asking the machine-wide scope first
preferredOfMachineFirst(architecture) ==
    LET preferred == detectPreferredFromRegistry(HKEY_LOCAL_MACHINE, architecture)
    IN  IF ~isValid(preferred)
        THEN detectPreferredFromRegistry(HKEY_CURRENT_USER, architecture)
        ELSE preferred

\* the registry-preferred record of autoDetect: current user, then machine
preferredOf(architecture) ==
    LET preferred == detectPreferredFromRegistry(HKEY_CURRENT_USER, architecture)
    IN  IF ~isValid(preferred)
        THEN detectPreferredFromRegistry(HKEY_LOCAL_MACHINE, architecture)
        ELSE preferred

\* autoDetect going on to the full scan whatever preferredOnly is
autoDetectAlwaysScans(architecture, preferredOnly) ==
    LET preferred == preferredOf(architecture)
    IN  IF isValid(preferred) THEN preferred
        ELSE firstOfArch(allRVersions(<<>>), architecture)

autoDetect(architecture, preferredOnly) ==
    LET preferred == preferredOf(architecture)
    IN  IF isValid(preferred) THEN preferred
        ELSE IF preferredOnly THEN RVersion(<<>>)
        ELSE firstOfArch(allRVersions(<<>>), architecture)

-----------------------------------------------------------------------------
(* detectRVersion *)

MaxDepth == 2    \* frames of detectRVersion the model follows below the top-level one

\* lines 421-426: the persisted choice, kept only if it is a 64-bit one
\* keepIf64 without the test of the architecture
keepIfNotEmpty(rCurrentVersion) ==
    IF ~isEmpty(rCurrentVersion) THEN rCurrentVersion ELSE RVersion(<<>>)

\* keepIf64 testing the validity of the choice instead of its architecture
keepIfValid(rCurrentVersion) ==
    IF isValid(rCurrentVersion) THEN rCurrentVersion ELSE RVersion(<<>>)

keepIf64(rCurrentVersion) ==
    IF ~isEmpty(rCurrentVersion) /\ rCurrentVersion.arch = ArchX64
    THEN rCurrentVersion
    ELSE RVersion(<<>>)

tentativeOf(binDir) == keepIf64(RVersion(binDir))

\* untilDialog trying autoDetect() before the persisted choice
untilDialogDetectsFirst(force, rVersion, autoDetected) ==
    IF ~force
    THEN IF isValid(autoDetected) \/ isEmpty(rVersion)
         THEN [returns |-> isValid(autoDetected), value |-> autoDetected, ranAuto |-> TRUE,
               rVersion |-> rVersion, autoDetected |-> autoDetected]
         ELSE [returns |-> isValid(rVersion), value |-> rVersion, ranAuto |-> TRUE,
               rVersion |-> rVersion, autoDetected |-> autoDetected]
    ELSE [returns |-> FALSE, value |-> RVersion(<<>>), ranAuto |-> FALSE,
          rVersion |-> rVersion, autoDetected |-> RVersion(<<>>)]

\* untilDialog without the else branch that calls autoDetect()
untilDialogNoDetect(force, rVersion, autoDetected) ==
    IF ~force /\ ~isEmpty(rVersion)
    THEN [returns |-> isValid(rVersion), value |-> rVersion, ranAuto |-> FALSE,
          rVersion |-> rVersion, autoDetected |-> RVersion(<<>>)]
    ELSE [returns |-> FALSE, value |-> RVersion(<<>>), ranAuto |-> FALSE,
          rVersion |-> rVersion, autoDetected |-> RVersion(<<>>)]

\* lines 428-444 of one frame, autoDetected being what autoDetect() returns
\* if the frame calls it: whether the frame returns before the dialog, what
\* it returns, and whether it called autoDetect()
untilDialog(force, rVersion, autoDetected) ==
    IF ~force
    THEN IF ~isEmpty(rVersion)
         THEN [returns |-> isValid(rVersion), value |-> rVersion, ranAuto |-> FALSE,
               rVersion |-> rVersion, autoDetected |-> RVersion(<<>>)]
         ELSE [returns |-> isValid(autoDetected), value |-> autoDetected, ranAuto |-> TRUE,
               rVersion |-> rVersion, autoDetected |-> autoDetected]
    ELSE [returns |-> FALSE, value |-> RVersion(<<>>), ranAuto |-> FALSE,
          rVersion |-> rVersion, autoDetected |-> RVersion(<<>>)]

\* lines 419-444
entry(force, binDir) ==
    untilDialog(force, tentativeOf(binDir), autoDetect(ArchX64, FALSE))

\* dialogInput with a list that is not seeded
dialogInputUnseeded(rVersion, engine) ==
    [versions |-> allRVersions(<<>>), version |-> rVersion, renderingEngine |-> engine]

\* lines 449-452: what the dialog is constructed with
dialogInput(rVersion, engine) ==
    [versions |-> allRVersions(<<rVersion>>), version |-> rVersion, renderingEngine |-> engine]

NoDialog == [versions |-> <<>>, version |-> RVersion(<<>>), renderingEngine |-> ""]

\* acceptedOptions leaving the rendering engine as it is stored
acceptedOptionsKeepEngine(version, engine) ==
    [rBinDir |-> version.binDir, renderingEngine |-> renderingEngine]

\* lines 459-460: the options written on acceptance
acceptedOptions(version, engine) ==
    [rBinDir |-> version.binDir, renderingEngine |-> engine]

\* optionsAfter writing the selection of the dialog whatever exec() returned
optionsAfterAnyAnswer(accepted, version, engine) == acceptedOptions(version, engine)

\* lines 453-461: the options once dialog.exec() has returned, written only
\* when it returned QDialog::Accepted
optionsAfter(accepted, version, engine) ==
    IF accepted THEN acceptedOptions(version, engine)
    ELSE [rBinDir |-> rBinDir, renderingEngine |-> renderingEngine]

\* engineChanged reading the option back after it was written
engineReadBack(before, after) == after # after

\* line 465
engineChanged(before, after) == before # after

recurseForcingUi == TRUE

\* line 484: the forceUi argument of the recursive call
recurseForceUi == FALSE

\* abandoned falling back to the tentative candidate
abandonedKeepsTentative(rVersion) == rVersion

\* line 489: the value returned when the dialog is not accepted
abandoned(rVersion) == construct(<<>>, NoFile)

NoAnswer == [kind |-> "none", binDir |-> <<>>, engine |-> ""]

\* a frame entered at depth d runs as e says, up to its return or to the
\* dialog, while the options hold engine; h is the history so far
enter(e, d, engine, h) ==
    /\ depth' = d
    /\ pc' = IF e.returns THEN "done" ELSE "dialog"
    /\ result' = IF e.returns THEN e.value ELSE RVersion(<<>>)
    /\ dlg' = IF e.returns THEN NoDialog ELSE dialogInput(e.rVersion, engine)
    /\ hist' = [h EXCEPT !.nAuto = @ + (IF e.ranAuto THEN 1 ELSE 0),
                         !.autoDetected = IF e.ranAuto THEN e.autoDetected ELSE @,
                         !.nBridge = @ + (IF e.returns THEN 0 ELSE 1)]

\* the caller calls detectRVersion(force)
Call(force) ==
    /\ pc = "idle"
    /\ forceUi' = force
    /\ enter(entry(force, rBinDir), 0, renderingEngine,
             [pref |-> rBinDir, engine |-> renderingEngine, nAuto |-> 0, nBridge |-> 0,
              nWrites |-> 0, restart |-> FALSE, answer |-> NoAnswer,
              autoDetected |-> RVersion(<<>>)])
    /\ UNCHANGED <<env, rBinDir, renderingEngine, probe>>

-----------------------------------------------------------------------------
(* ChooseRHome, the dialog *)

Engines == {"auto", "software"}

\* what the user can pick: "use the default" (the empty path), an entry of
\* the list, or a directory found by browsing
Browsable ==
    { <<>>,
      <<"C:", "PF", "R", "A", "bin", "x64">>,
      <<"c:", "pf", "r", "a", "bin", "x64">>,
      <<"C:", "PF", "R", "A", "bin">>,
      <<"C:", "PF", "R", "B", "bin", "x64">>,
      <<"C:", "PF", "R", "B", "bin">>,
      <<"C:", "PF", "R", "B", "BIN", "x64">>,
      <<"C:", "Gone", "bin">> }

Selectable == Browsable \cup {dlg.versions[i].binDir : i \in 1..Len(dlg.versions)}

\* the dialog lets itself be accepted only with a selection it found usable:
\* the default when an installation is detected, a directory when it holds
\* a valid 64-bit installation
usable(binDir) ==
    IF binDir = <<>> THEN isValid(autoDetect(ArchX64, FALSE))
    ELSE isValid(RVersion(binDir)) /\ RVersion(binDir).arch = ArchX64

\* dialog.exec() returns QDialog::Accepted
BridgeAccept(binDir, engine) ==
    /\ pc = "dialog"
    /\ depth < MaxDepth
    /\ usable(binDir)
    /\ LET opts == optionsAfter(TRUE, RVersion(binDir), engine)
           h == [hist EXCEPT !.nWrites = @ + 1,
                             !.answer = [kind |-> "accept", binDir |-> binDir, engine |-> engine]]
       IN  /\ rBinDir' = opts.rBinDir
           /\ renderingEngine' = opts.renderingEngine
           /\ IF engineChanged(dlg.renderingEngine, engine)
              THEN /\ pc' = "done"
                   /\ result' = RVersion(<<>>)
                   /\ hist' = [h EXCEPT !.restart = TRUE]
                   /\ dlg' = NoDialog
                   /\ depth' = depth
              ELSE enter(entry(recurseForceUi, opts.rBinDir), depth + 1,
                         opts.renderingEngine, h)
    /\ UNCHANGED <<env, forceUi, probe>>

\* dialog.exec() returns QDialog::Rejected
BridgeAbandon ==
    /\ pc = "dialog"
    /\ pc' = "done"
    /\ result' = abandoned(dlg.version)
    /\ hist' = [hist EXCEPT !.answer = [kind |-> "abandon", binDir |-> <<>>, engine |-> ""]]
    /\ dlg' = NoDialog
    /\ LET opts == optionsAfter(FALSE, dlg.version, dlg.renderingEngine)
       IN  /\ rBinDir' = opts.rBinDir
           /\ renderingEngine' = opts.renderingEngine
    /\ UNCHANGED <<env, forceUi, depth, probe>>

\* the caller has the result and may call again
Return ==
    /\ pc = "done"
    /\ pc' = "idle"
    /\ UNCHANGED <<env, rBinDir, renderingEngine, forceUi, depth, result, dlg, hist, probe>>

-----------------------------------------------------------------------------
(* Hosts *)

ProgramFilesPath == <<"C:", "PF">>
HomeA == <<"C:", "PF", "R", "A">>
HomeALower == <<"c:", "pf", "r", "a">>
HomeB == <<"C:", "PF", "R", "B">>
Elsewhere == <<"C:", "W">>

VOld == <<3, 0>>
V4 == <<4, 2>>
V5 == <<5, 0>>
VBig == <<65535, 0>>

X64Dll(v) == Dll(v, IMAGE_NT_SIGNATURE, IMAGE_FILE_MACHINE_AMD64, TRUE)
X86Dll(v) == Dll(v, IMAGE_NT_SIGNATURE, IMAGE_FILE_MACHINE_I386, TRUE)
OtherDll(v) == Dll(v, IMAGE_NT_SIGNATURE, 512, TRUE)
TruncatedDll(v) == Dll(v, IMAGE_NT_SIGNATURE, IMAGE_FILE_MACHINE_AMD64, FALSE)

FilesA ==
    { (HomeA \o <<"bin", "x64">>) :> NoFile @@ (HomeA \o <<"bin">>) :> NoFile,
      (HomeA \o <<"bin", "x64">>) :> X64Dll(V4) @@ (HomeA \o <<"bin">>) :> X86Dll(V5),
      (HomeA \o <<"bin", "x64">>) :> X64Dll(VBig) @@ (HomeA \o <<"bin">>) :> NoFile }

FilesB ==
    { (HomeB \o <<"bin", "x64">>) :> NoFile @@ (HomeB \o <<"bin">>) :> NoFile,
      (HomeB \o <<"bin", "x64">>) :> X64Dll(VOld) @@ (HomeB \o <<"bin">>) :> TruncatedDll(V5),
      (HomeB \o <<"bin", "x64">>) :> X64Dll(V5) @@ (HomeB \o <<"bin">>) :> OtherDll(V4) }

RegKey(status, path, keys) == [open |-> status, InstallPath |-> path, keys |-> keys]
SubKey(err, path) == [error |-> err, InstallPath |-> path]

CurrentUserKeys ==
    { RegKey("notfound", <<>>, <<>>),
      RegKey("ok", HomeALower, <<SubKey(FALSE, HomeA)>>),
      RegKey("ok", <<>>, <<SubKey(FALSE, HomeB)>>) }

LocalMachineKeys ==
    { RegKey("error", <<>>, <<>>),
      RegKey("ok", HomeB, <<SubKey(TRUE, <<>>), SubKey(FALSE, HomeB)>>) }

\* Software is not redirected under HKEY_CURRENT_USER: both views are one key
Registry(cu, lm) ==
    <<HKEY_CURRENT_USER, KEY_WOW64_64KEY>> :> cu @@
    <<HKEY_CURRENT_USER, KEY_WOW64_32KEY>> :> cu @@
    <<HKEY_LOCAL_MACHINE, KEY_WOW64_64KEY>> :> lm @@
    <<HKEY_LOCAL_MACHINE, KEY_WOW64_32KEY>> :> RegKey("notfound", <<>>, <<>>)

\* R_HOME and the current directory
HomeAndCwd == { <<<<>>, Elsewhere>>, <<<<>>, HomeB>>, <<HomeB, Elsewhere>> }

\* ProgramFiles, ProgramW6432, ProgramFiles(x86)
ProgramFilesVars ==
    { <<<<>>, <<>>, <<>>>>,
      <<ProgramFilesPath, <<"c:", "pf">>, ProgramFilesPath>> }

Hosts ==
    { [R_HOME |-> hc[1], cwd |-> hc[2],
       ProgramFiles |-> pf[1], ProgramW6432 |-> pf[2], ProgramFilesX86 |-> pf[3],
       reg |-> Registry(cu, lm), files |-> fa @@ fb] :
      hc \in HomeAndCwd, pf \in ProgramFilesVars, cu \in CurrentUserKeys,
      lm \in LocalMachineKeys, fa \in FilesA, fb \in FilesB }

\* what the options file can hold when the program starts
StoredChoices ==
    { <<>>,
      HomeA \o <<"bin", "x64">>,
      HomeA \o <<"bin">>,
      HomeB \o <<"bin", "x64">>,
      <<"C:", "PF", "R", "A", "BIN", "x64">>,
      <<"C:", "Gone", "bin">> }

NoProbe == [op |-> "none", architecture |-> ArchNone, preferredOnly |-> FALSE,
            out |-> RVersion(<<>>), versions |-> <<>>, list |-> <<>>]

\* the hosts detectRVersion is followed on: R_HOME unset, started elsewhere
ResolveHosts == {h \in Hosts : h.R_HOME = <<>> /\ h.cwd = Elsewhere}

Init ==
    /\ env \in ResolveHosts
    /\ rBinDir \in StoredChoices
    /\ renderingEngine = "auto"
    /\ pc = "idle"
    /\ forceUi = FALSE
    /\ depth = 0
    /\ result = RVersion(<<>>)
    /\ dlg = NoDialog
    /\ hist = [pref |-> <<>>, engine |-> "", nAuto |-> 0, nBridge |-> 0, nWrites |-> 0,
               restart |-> FALSE, answer |-> NoAnswer, autoDetected |-> RVersion(<<>>)]
    /\ probe = NoProbe

Next ==
    \/ \E force \in BOOLEAN : Call(force)
    \/ \E binDir \in Selectable, engine \in Engines : BridgeAccept(binDir, engine)
    \/ BridgeAbandon
    \/ Return

Spec == Init /\ [][Next]_vars

-----------------------------------------------------------------------------
(* autoDetect called on its own, as the dialog and the callers do *)

AutoDetectCall(architecture, preferredOnly) ==
    /\ probe' = [op |-> "autoDetect", architecture |-> architecture,
                 preferredOnly |-> preferredOnly,
                 out |-> autoDetect(architecture, preferredOnly),
                 versions |-> <<>>, list |-> <<>>]
    /\ UNCHANGED <<env, rBinDir, renderingEngine, pc, forceUi, depth, result, dlg, hist>>

InitDetect ==
    /\ env \in Hosts
    /\ rBinDir = <<>>
    /\ renderingEngine = "auto"
    /\ pc = "idle"
    /\ forceUi = FALSE
    /\ depth = 0
    /\ result = RVersion(<<>>)
    /\ dlg = NoDialog
    /\ hist = [pref |-> <<>>, engine |-> "", nAuto |-> 0, nBridge |-> 0, nWrites |-> 0,
               restart |-> FALSE, answer |-> NoAnswer, autoDetected |-> RVersion(<<>>)]
    /\ probe = NoProbe

NextDetect ==
    \E architecture \in Architectures, preferredOnly \in BOOLEAN :
        AutoDetectCall(architecture, preferredOnly)

SpecDetect == InitDetect /\ [][NextDetect]_vars

-----------------------------------------------------------------------------
(* allRVersions called on its own with a list of known versions, as
   detectRVersion does at line 450 *)

\* the directories the caller's records are constructed from
SeedDirs == StoredChoices \cup {HomeALower \o <<"bin", "x64">>}

\* the lists of known versions passed in: none, one record, and pairs that
\* name one installation twice or two installations
SeedLists ==
    {<<>>} \cup {<<d>> : d \in SeedDirs} \cup
    { <<HomeA \o <<"bin", "x64">>, HomeALower \o <<"bin", "x64">>>>,
      <<HomeB \o <<"bin", "x64">>, HomeB \o <<"bin", "x64">>>>,
      <<HomeB \o <<"bin">>, HomeA \o <<"bin">>>>,
      <<HomeA \o <<"bin", "BIN">>>> }

\* hosts on which R_HOME names the bin directory of installation A, which
\* holds an R.dll in a subdirectory bin of its own besides the one in x64
NestedBinHosts ==
    { [R_HOME |-> HomeA \o <<"bin">>, cwd |-> Elsewhere,
       ProgramFiles |-> ProgramFilesPath, ProgramW6432 |-> <<>>, ProgramFilesX86 |-> <<>>,
       reg |-> Registry(RegKey("notfound", <<>>, <<>>), RegKey("error", <<>>, <<>>)),
       files |-> (HomeA \o <<"bin", "bin">>) :> X64Dll(V4) @@
                 (HomeA \o <<"bin", "x64">>) :> X64Dll(v) @@
                 (HomeA \o <<"bin">>) :> NoFile @@
                 (HomeB \o <<"bin", "x64">>) :> NoFile @@
                 (HomeB \o <<"bin">>) :> NoFile] : v \in {V4, V5} }

\* QList<RVersion>() << RVersion(d1) << ...
seedOf(dirs) == [i \in 1..Len(dirs) |-> RVersion(dirs[i])]

AllRVersionsCall(dirs) ==
    /\ probe' = [op |-> "allRVersions", architecture |-> ArchNone,
                 preferredOnly |-> FALSE, out |-> RVersion(<<>>),
                 versions |-> seedOf(dirs), list |-> allRVersions(seedOf(dirs))]
    /\ UNCHANGED <<env, rBinDir, renderingEngine, pc, forceUi, depth, result, dlg, hist>>

InitAll ==
    /\ env \in Hosts \cup NestedBinHosts
    /\ rBinDir = <<>>
    /\ renderingEngine = "auto"
    /\ pc = "idle"
    /\ forceUi = FALSE
    /\ depth = 0
    /\ result = RVersion(<<>>)
    /\ dlg = NoDialog
    /\ hist = [pref |-> <<>>, engine |-> "", nAuto |-> 0, nBridge |-> 0, nWrites |-> 0,
               restart |-> FALSE, answer |-> NoAnswer, autoDetected |-> RVersion(<<>>)]
    /\ probe = NoProbe

NextAll == \E dirs \in SeedLists : AllRVersionsCall(dirs)

SpecAll == InitAll /\ [][NextAll]_vars

-----------------------------------------------------------------------------
(* RVersion::compareTo called on records of arbitrary versions *)

VZero == <<0, 0>>
VHalf == <<32768, 0>>     \* 0x80000000

CmpVersions == {VZero, V4, VHalf, VBig}

CmpDirs ==
    {HomeA \o <<"bin", "x64">>, HomeALower \o <<"bin", "x64">>, HomeB \o <<"bin">>,
     <<"C:", "PF", "R", "A", "BIN", "x64">>,
     HomeA \o <<"bin", "bin">>, HomeA \o <<"bin", "BIN">>}

\* records as the constructor makes them from a directory and its R.dll
CmpRecords ==
    {construct(d, dll) : d \in CmpDirs,
                         dll \in {X64Dll(v) : v \in CmpVersions} \cup
                                 {X86Dll(v) : v \in CmpVersions} \cup
                                 {OtherDll(v) : v \in CmpVersions} \cup
                                 {TruncatedDll(v) : v \in CmpVersions}}

\* the records the third operand is taken from
CmpThird == {construct(HomeB \o <<"bin">>, X64Dll(v)) : v \in CmpVersions}

sign(c) == IF c < 0 THEN -1 ELSE IF c > 0 THEN 1 ELSE 0

\* compareTo on each pair of the three records a, b, c; wraps is what the
\* build makes of an int subtraction or negation that overflows
CompareToCall(wraps) ==
    /\ probe' = [probe EXCEPT
           !.op = "compareTo",
           !.wraps = wraps,
           !.ab = compareToWith(probe.a, probe.b, wraps),
           !.ba = compareToWith(probe.b, probe.a, wraps),
           !.bc = compareToWith(probe.b, probe.c, wraps),
           !.ac = compareToWith(probe.a, probe.c, wraps)]
    /\ UNCHANGED <<env, rBinDir, renderingEngine, pc, forceUi, depth, result, dlg, hist>>

InitCompare ==
    /\ env = CHOOSE h \in Hosts : TRUE
    /\ rBinDir = <<>>
    /\ renderingEngine = "auto"
    /\ pc = "idle"
    /\ forceUi = FALSE
    /\ depth = 0
    /\ result = construct(<<>>, NoFile)
    /\ dlg = [versions |-> <<>>, version |-> construct(<<>>, NoFile), renderingEngine |-> ""]
    /\ hist = [pref |-> <<>>, engine |-> "", nAuto |-> 0, nBridge |-> 0, nWrites |-> 0,
               restart |-> FALSE, answer |-> NoAnswer,
               autoDetected |-> construct(<<>>, NoFile)]
    /\ probe \in {[op |-> "none", a |-> a, b |-> b, c |-> c, wraps |-> FALSE,
                    ab |-> 0, ba |-> 0, bc |-> 0, ac |-> 0] :
                   a \in CmpRecords, b \in CmpRecords, c \in CmpThird}

NextCompare == \E wraps \in BOOLEAN : CompareToCall(wraps)

SpecCompare == InitCompare /\ [][NextCompare]_vars

-----------------------------------------------------------------------------
(* getArch called on files of arbitrary length and content *)

ArchOffsets == {<<64, 0, 0, 0>>, <<128, 0, 0, 0>>, <<64, 0, 1, 0>>}

ArchLengths == {0, 40, 62, 64, 66, 68, 69, 70, 132, 134}

ArchSignatures == {signatureBytes, <<80, 69, 0, 1>>, <<69, 80, 0, 0>>, <<77, 90, 0, 0>>}

ArchMachines == {<<76, 1>>, <<100, 134>>, <<0, 2>>, <<1, 76>>, <<0, 0>>}

\* a file of len bytes that holds offset at 0x3C, signature at that offset
\* and machine behind it, as far as it reaches, and zeros elsewhere
FileOf(len, offset, signature, machine) ==
    LET at == le32(offset)
    IN  [i \in 1..len |->
            IF i > e_lfanew /\ i <= e_lfanew + 4 THEN offset[i - e_lfanew]
            ELSE IF i > at /\ i <= at + 4 THEN signature[i - at]
            ELSE IF i > at + 4 /\ i <= at + 6 THEN machine[i - at - 4]
            ELSE 0]

ArchFiles ==
    {FileOf(len, offset, signature, machine) :
        len \in ArchLengths, offset \in ArchOffsets,
        signature \in ArchSignatures, machine \in ArchMachines}

\* missing; there but not to be opened; there and opened
ArchAccess == {<<FALSE, FALSE>>, <<TRUE, FALSE>>, <<TRUE, TRUE>>}

\* what an uninitialised uint32_t and uint16_t may hold
Uninit32 == {<<0, 0, 0, 0>>, signatureBytes, <<64, 0, 0, 0>>}
Uninit16 == {<<0, 0>>, <<76, 1>>}

GetArchCall(u1, u2, u3) ==
    /\ probe' = [probe EXCEPT
           !.op = "getArch", !.u1 = u1, !.u2 = u2, !.u3 = u3,
           !.out = getArchOfBytes(probe.exists, probe.opens, probe.data, u1, u2, u3)]
    /\ UNCHANGED <<env, rBinDir, renderingEngine, pc, forceUi, depth, result, dlg, hist>>

InitArch ==
    /\ env = CHOOSE h \in Hosts : TRUE
    /\ rBinDir = <<>>
    /\ renderingEngine = "auto"
    /\ pc = "idle"
    /\ forceUi = FALSE
    /\ depth = 0
    /\ result = construct(<<>>, NoFile)
    /\ dlg = [versions |-> <<>>, version |-> construct(<<>>, NoFile), renderingEngine |-> ""]
    /\ hist = [pref |-> <<>>, engine |-> "", nAuto |-> 0, nBridge |-> 0, nWrites |-> 0,
               restart |-> FALSE, answer |-> NoAnswer,
               autoDetected |-> construct(<<>>, NoFile)]
    /\ probe \in {[op |-> "none", exists |-> access[1], opens |-> access[2], data |-> data,
                    u1 |-> <<>>, u2 |-> <<>>, u3 |-> <<>>, out |-> ArchNone] :
                   access \in ArchAccess, data \in ArchFiles}

NextArch == \E u1 \in Uninit32, u2 \in Uninit32, u3 \in Uninit16 : GetArchCall(u1, u2, u3)

SpecArch == InitArch /\ [][NextArch]_vars

-----------------------------------------------------------------------------
(* confirmMinVersion called on arbitrary versions and requirements *)

MinVersions ==
    {VZero, VOld, <<3, 65535>>, <<4, 0>>, <<4, 1>>, V4, V5, VHalf, <<65535, 65535>>}

MinMajors == {0, 3, 4, 5, 65535}

MinMinors == {0, 1, 2, 3, 65535}

ConfirmMinVersionCall ==
    /\ probe' = [probe EXCEPT
           !.op = "confirmMinVersion",
           !.out = confirmMinVersion(probe.version, probe.major, probe.minor)]
    /\ UNCHANGED <<env, rBinDir, renderingEngine, pc, forceUi, depth, result, dlg, hist>>

InitMin ==
    /\ env = CHOOSE h \in Hosts : TRUE
    /\ rBinDir = <<>>
    /\ renderingEngine = "auto"
    /\ pc = "idle"
    /\ forceUi = FALSE
    /\ depth = 0
    /\ result = construct(<<>>, NoFile)
    /\ dlg = [versions |-> <<>>, version |-> construct(<<>>, NoFile), renderingEngine |-> ""]
    /\ hist = [pref |-> <<>>, engine |-> "", nAuto |-> 0, nBridge |-> 0, nWrites |-> 0,
               restart |-> FALSE, answer |-> NoAnswer,
               autoDetected |-> construct(<<>>, NoFile)]
    /\ probe \in {[op |-> "none", version |-> version, major |-> major, minor |-> minor,
                    out |-> FALSE] :
                   version \in MinVersions, major \in MinMajors, minor \in MinMinors}

NextMin == ConfirmMinVersionCall

SpecMin == InitMin /\ [][NextMin]_vars

-----------------------------------------------------------------------------
(* RVersion constructed from a directory and validated *)

\* the directories records are constructed from: stored choices, a
\* directory spelled in other case, one relative to the current directory
ValidateDirs ==
    StoredChoices \cup {HomeALower \o <<"bin", "x64">>, HomeB \o <<"bin">>,
                        <<"bin", "x64">>, <<"C:", "PF", "R", "B", "bin", "X64">>}

ValidateCall ==
    /\ probe' = [probe EXCEPT
           !.op = "validate",
           !.out = RVersion(probe.binDir),
           !.valid = isValid(RVersion(probe.binDir))]
    /\ UNCHANGED <<env, rBinDir, renderingEngine, pc, forceUi, depth, result, dlg, hist>>

InitValidate ==
    /\ env \in Hosts
    /\ rBinDir = <<>>
    /\ renderingEngine = "auto"
    /\ pc = "idle"
    /\ forceUi = FALSE
    /\ depth = 0
    /\ result = construct(<<>>, NoFile)
    /\ dlg = [versions |-> <<>>, version |-> construct(<<>>, NoFile), renderingEngine |-> ""]
    /\ hist = [pref |-> <<>>, engine |-> "", nAuto |-> 0, nBridge |-> 0, nWrites |-> 0,
               restart |-> FALSE, answer |-> NoAnswer,
               autoDetected |-> construct(<<>>, NoFile)]
    /\ probe \in {[op |-> "none", binDir |-> d, out |-> construct(<<>>, NoFile),
                    valid |-> FALSE] : d \in ValidateDirs}

NextValidate == ValidateCall

SpecValidate == InitValidate /\ [][NextValidate]_vars

-----------------------------------------------------------------------------
(* binDirToHomeDir called on arbitrary directories *)

MaxSegments == 4    \* longest directory, in segments

Segments == {"C:", "R", "bin", "BIN", "x64"}

RECURSIVE pathsOf(_)
pathsOf(n) ==
    IF n = 0 THEN {<<>>}
    ELSE pathsOf(n - 1) \cup {Append(p, s) : p \in {q \in pathsOf(n - 1) : Len(q) = n - 1},
                                            s \in Segments}

BinDirToHomeDirCall ==
    /\ probe' = [probe EXCEPT !.op = "binDirToHomeDir",
                              !.out = binDirToHomeDir(probe.binDir)]
    /\ UNCHANGED <<env, rBinDir, renderingEngine, pc, forceUi, depth, result, dlg, hist>>

InitHome ==
    /\ env = CHOOSE h \in Hosts : TRUE
    /\ rBinDir = <<>>
    /\ renderingEngine = "auto"
    /\ pc = "idle"
    /\ forceUi = FALSE
    /\ depth = 0
    /\ result = construct(<<>>, NoFile)
    /\ dlg = [versions |-> <<>>, version |-> construct(<<>>, NoFile), renderingEngine |-> ""]
    /\ hist = [pref |-> <<>>, engine |-> "", nAuto |-> 0, nBridge |-> 0, nWrites |-> 0,
               restart |-> FALSE, answer |-> NoAnswer,
               autoDetected |-> construct(<<>>, NoFile)]
    /\ probe \in {[op |-> "none", binDir |-> d, out |-> <<"?">>] : d \in pathsOf(MaxSegments)}

NextHome == BinDirToHomeDirCall

SpecHome == InitHome /\ [][NextHome]_vars

-----------------------------------------------------------------------------
(* The registry-seeded sources called on one scope and view *)

RegistrySeeds == {<<>>, <<HomeA \o <<"bin", "x64">>>>}

EnumRegistryCall ==
    /\ probe' = [probe EXCEPT
           !.op = "enumRegistry",
           !.list = enumRegistryKey(probe.architecture, probe.key, probe.versions),
           !.log = enumRegistryLog(probe.architecture, probe.key)]
    /\ UNCHANGED <<env, rBinDir, renderingEngine, pc, forceUi, depth, result, dlg, hist>>

DetectPreferredFromRegistryCall ==
    /\ probe' = [probe EXCEPT
           !.op = "detectPreferredFromRegistry",
           !.out = detectPreferredFromRegistry(probe.key, probe.architecture),
           !.log = detectPreferredFromRegistryLog(probe.key, probe.architecture)]
    /\ UNCHANGED <<env, rBinDir, renderingEngine, pc, forceUi, depth, result, dlg, hist>>

InitRegistry ==
    /\ env \in Hosts
    /\ rBinDir = <<>>
    /\ renderingEngine = "auto"
    /\ pc = "idle"
    /\ forceUi = FALSE
    /\ depth = 0
    /\ result = construct(<<>>, NoFile)
    /\ dlg = [versions |-> <<>>, version |-> construct(<<>>, NoFile), renderingEngine |-> ""]
    /\ hist = [pref |-> <<>>, engine |-> "", nAuto |-> 0, nBridge |-> 0, nWrites |-> 0,
               restart |-> FALSE, answer |-> NoAnswer,
               autoDetected |-> construct(<<>>, NoFile)]
    /\ probe \in {[op |-> "none", key |-> key, architecture |-> architecture,
                    versions |-> seedOf(dirs), list |-> <<>>, log |-> <<>>,
                    out |-> construct(<<>>, NoFile)] :
                   key \in {HKEY_CURRENT_USER, HKEY_LOCAL_MACHINE},
                   architecture \in {ArchX86, ArchX64}, dirs \in RegistrySeeds}

NextRegistry == EnumRegistryCall \/ DetectPreferredFromRegistryCall

SpecRegistry == InitRegistry /\ [][NextRegistry]_vars

-----------------------------------------------------------------------------
(* main of the desktop front end, from the preparation of the environment
   to the launch of the session (DesktopMain.cpp) *)

\* prepareEnvironment resolves the version to use and fails when there is none
prepareEnvironment(rVersion) == ~isEmpty(rVersion)

\* main going on whatever prepareEnvironment returned
mainReturnsNever(prepared) == FALSE

\* DesktopMain.cpp lines 629-630: main returns 1 when prepareEnvironment failed
mainReturns1(prepared) == ~prepared

\* prepareEnvironment calls detectRVersion
PrepareEnvironmentCall(force) ==
    /\ probe.at = "prepare"
    /\ Call(force)

\* prepareEnvironment returns to main, which goes on or returns 1
PrepareEnvironmentReturns ==
    /\ probe.at = "prepare"
    /\ pc = "done"
    /\ pc' = "idle"
    /\ probe' = [probe EXCEPT !.first = result,
                              !.asked = hist.nBridge > 0,
                              !.at = IF mainReturns1(prepareEnvironment(result))
                                     THEN "aborted" ELSE "main"]
    /\ UNCHANGED <<env, rBinDir, renderingEngine, forceUi, depth, result, dlg, hist>>

\* DesktopMain.cpp line 642: RVersion version = detectRVersion(false)
MainCall ==
    /\ probe.at = "main"
    /\ Call(FALSE)

\* DesktopMain.cpp lines 642-724: with version in hand main goes on to
\* launch the session, without a test of version
LaunchSession ==
    /\ probe.at = "main"
    /\ pc = "done"
    /\ pc' = "idle"
    /\ probe' = [probe EXCEPT !.second = result, !.at = "launched"]
    /\ UNCHANGED <<env, rBinDir, renderingEngine, forceUi, depth, result, dlg, hist>>

InitMain ==
    /\ env \in ResolveHosts
    /\ rBinDir \in StoredChoices
    /\ renderingEngine = "auto"
    /\ pc = "idle"
    /\ forceUi = FALSE
    /\ depth = 0
    /\ result = RVersion(<<>>)
    /\ dlg = NoDialog
    /\ hist = [pref |-> <<>>, engine |-> "", nAuto |-> 0, nBridge |-> 0, nWrites |-> 0,
               restart |-> FALSE, answer |-> NoAnswer, autoDetected |-> RVersion(<<>>)]
    /\ probe = [op |-> "main", at |-> "prepare", asked |-> FALSE,
                first |-> RVersion(<<>>), second |-> RVersion(<<>>)]

NextMain ==
    \/ \E force \in BOOLEAN : PrepareEnvironmentCall(force)
    \/ \E binDir \in Selectable, engine \in Engines : BridgeAccept(binDir, engine)
    \/ BridgeAbandon
    \/ PrepareEnvironmentReturns
    \/ MainCall
    \/ LaunchSession

SpecMain == InitMain /\ [][NextMain]_vars

-----------------------------------------------------------------------------
(* Properties of detectRVersion (resolve) *)

\* a top-level call is running or has just returned
Running == pc # "idle"

\* the candidate constructed from the previous choice as it was at the call
Stored == RVersion(hist.pref)

\* the previous choice yields a tentative candidate
IsTentative == hist.pref # <<>> /\ Stored.arch = ArchX64

Tentative == IF IsTentative THEN Stored ELSE RVersion(<<>>)

\* what autoDetect() returns on this host
Detected == autoDetect(ArchX64, FALSE)

\* version a is greater than version b as unsigned 32-bit values
versionAbove(a, b) == a[1] > b[1] \/ (a[1] = b[1] /\ a[2] > b[2])

\* C1: without forceUi, a previous choice that yields a valid tentative
\* candidate is returned at once: autoDetect is not run, the dialog is not
\* shown and the options are not written.
C1_ValidChoiceReturnedAtOnce ==
    (Running /\ ~forceUi /\ IsTentative /\ isValid(Stored)) =>
        /\ pc = "done"
        /\ depth = 0
        /\ result = Stored
        /\ hist.nAuto = 0
        /\ hist.nBridge = 0
        /\ hist.nWrites = 0
        /\ rBinDir = hist.pref
        /\ renderingEngine = hist.engine

\* the call returned a valid previous choice that autoDetect would not have found
C1_Witness ==
    /\ pc = "done" /\ ~forceUi /\ IsTentative /\ isValid(Stored)
    /\ result = Stored
    /\ Detected # Stored

\* C2 as claimed: without forceUi, every previous choice that is non-empty
\* but not valid is discarded and autoDetect is run; when autoDetect yields
\* a valid record it is returned and the dialog is never shown.
C2_StaleChoiceAlwaysRedetected ==
    (Running /\ ~forceUi /\ hist.pref # <<>> /\ ~isValid(Stored)) =>
        /\ hist.nAuto >= 1
        /\ isValid(Detected) => (pc = "done" /\ result = Detected /\ hist.nBridge = 0)

\* C2 as the code has it: a non-valid previous choice is discarded, and
\* autoDetect run, when its R.dll is not a 64-bit binary; one whose R.dll is
\* 64-bit (too old, or without a derivable home) stays the tentative
\* candidate, autoDetect is not run and the dialog is shown with it selected.
C2_StaleChoiceRedetectedUnless64Bit ==
    /\ (Running /\ ~forceUi /\ hist.pref # <<>> /\ ~isValid(Stored) /\ ~IsTentative) =>
          /\ hist.nAuto >= 1
          /\ isValid(Detected) =>
                (pc = "done" /\ result = Detected /\ hist.nBridge = 0 /\ hist.nWrites = 0)
    /\ (Running /\ ~forceUi /\ ~isValid(Stored) /\ IsTentative) =>
          /\ hist.nBridge = 1
          /\ hist.answer.kind = "none" =>
                (pc = "dialog" /\ hist.nAuto = 0 /\ dlg.version = Stored)

\* a stale previous choice that is not 64-bit was discarded and the detected
\* installation returned without the dialog
C2_Witness ==
    /\ pc = "done" /\ ~forceUi /\ hist.pref # <<>> /\ ~isValid(Stored) /\ ~IsTentative
    /\ hist.nAuto = 1 /\ hist.nBridge = 0
    /\ isValid(result) /\ result = Detected

\* C3 as claimed (scenario C): without forceUi, when R.dll of the previous
\* choice no longer exists, autoDetect is run, the stale choice is never the
\* value returned and the dialog is not shown.
C3_MissingChoiceNeverAsks ==
    (Running /\ ~forceUi /\ hist.pref # <<>> /\ ~existsDll(hist.pref)) =>
        /\ hist.nAuto >= 1
        /\ pc = "done" => (isEmpty(result) \/ compareCI(result.binDir, hist.pref) # 0)
        /\ hist.nBridge = 0

\* C3 as the code has it: autoDetect is run and the stale choice is never
\* returned; the dialog is not shown when autoDetect yields a valid record,
\* and is shown when it yields none.
C3_MissingChoiceAsksOnlyIfNothingDetected ==
    (Running /\ ~forceUi /\ hist.pref # <<>> /\ ~existsDll(hist.pref)) =>
        /\ hist.nAuto >= 1
        /\ pc = "done" => (isEmpty(result) \/ compareCI(result.binDir, hist.pref) # 0)
        /\ isValid(Detected) => (pc = "done" /\ result = Detected /\ hist.nBridge = 0)
        /\ ~isValid(Detected) => hist.nBridge = 1

\* the previous choice is gone and the detected installation was returned
C3_Witness ==
    /\ pc = "done" /\ ~forceUi /\ hist.pref # <<>> /\ ~existsDll(hist.pref)
    /\ hist.nAuto = 1 /\ hist.nBridge = 0
    /\ isValid(result) /\ result = Detected

\* C4: a top-level call never recurses deeper than one level and shows the
\* dialog at most once; after an acceptance that leaves the rendering engine
\* as it was, the one recursive frame has returned, with a valid record.
C4_OneRecursionOneDialog ==
    /\ depth <= 1
    /\ hist.nBridge <= 1
    /\ (Running /\ hist.answer.kind = "accept" /\ hist.answer.engine = hist.engine) =>
          (pc = "done" /\ depth = 1 /\ isValid(result) /\ ~hist.restart)

\* the user accepted with the engine unchanged and the recursive frame returned
C4_Witness ==
    /\ pc = "done" /\ depth = 1 /\ hist.nBridge = 1
    /\ hist.answer.kind = "accept" /\ hist.answer.engine = hist.engine
    /\ isValid(result)

\* C5 (scenario D): after an acceptance that changes the rendering engine
\* the call has returned the empty record with the restart message shown,
\* without recursing and without a second dialog; the restart message is
\* shown in no other case.
C5_EngineChangeEndsWithRestart ==
    /\ (Running /\ hist.answer.kind = "accept" /\ hist.answer.engine # hist.engine) =>
          /\ pc = "done"
          /\ isEmpty(result)
          /\ hist.restart
          /\ depth = 0
          /\ hist.nBridge = 1
    /\ (Running /\ hist.restart) =>
          (hist.answer.kind = "accept" /\ hist.answer.engine # hist.engine)

\* the user accepted a usable installation and another rendering engine
C5_Witness ==
    /\ pc = "done" /\ hist.restart /\ isEmpty(result)
    /\ hist.answer.kind = "accept" /\ hist.answer.binDir # <<>>
    /\ hist.answer.engine # hist.engine

\* C6: after every acceptance the options hold the chosen binDir and the
\* rendering engine of the dialog, written once, whether or not the engine
\* changed.
C6_AcceptanceIsPersisted ==
    (Running /\ hist.answer.kind = "accept") =>
        /\ rBinDir = hist.answer.binDir
        /\ renderingEngine = hist.answer.engine
        /\ hist.nWrites = 1

\* an acceptance changed both the stored choice and the stored engine
C6_Witness ==
    /\ pc = "done" /\ hist.answer.kind = "accept"
    /\ rBinDir = hist.answer.binDir /\ rBinDir # hist.pref
    /\ renderingEngine = hist.answer.engine /\ renderingEngine # hist.engine

\* C7: after the dialog is abandoned the call has returned the empty
\* record, whatever forceUi and the previous choice were, without recursing
\* and without writing the options.
C7_AbandonmentReturnsNone ==
    (Running /\ hist.answer.kind = "abandon") =>
        /\ pc = "done"
        /\ isEmpty(result)
        /\ depth = 0
        /\ hist.nWrites = 0
        /\ rBinDir = hist.pref
        /\ renderingEngine = hist.engine

\* the dialog was forced over a valid previous choice and abandoned
C7_Witness ==
    /\ pc = "done" /\ hist.answer.kind = "abandon" /\ forceUi
    /\ isValid(Tentative) /\ isValid(Detected)
    /\ isEmpty(result)

\* C8: with forceUi the dialog is always shown before the call returns, and
\* it is constructed with allRVersions seeded with the tentative candidate
\* (which is therefore in the list when it is valid), with the tentative
\* candidate as the selected entry and with the stored rendering engine.
C8_ForceUiAlwaysAsks ==
    (Running /\ forceUi) =>
        /\ hist.nBridge >= 1
        /\ hist.answer.kind = "none" =>
              /\ pc = "dialog"
              /\ depth = 0
              /\ dlg.version = Tentative
              /\ dlg.versions = allRVersions(<<Tentative>>)
              /\ isValid(Tentative) =>
                    \E i \in 1..Len(dlg.versions) : equals(dlg.versions[i], Tentative)
              /\ dlg.renderingEngine = hist.engine

\* the dialog is open although the previous choice is valid, autoDetect
\* would succeed, and only the seed puts the previous choice into the list
C8_Witness ==
    /\ pc = "dialog" /\ forceUi
    /\ isValid(Tentative) /\ isValid(Detected)
    /\ \A i \in 1..Len(allRVersions(<<>>)) : ~equals(allRVersions(<<>>)[i], Tentative)

-----------------------------------------------------------------------------
(* Properties of autoDetect *)

CurrentUserPreferred == detectPreferredFromRegistry(HKEY_CURRENT_USER, probe.architecture)
LocalMachinePreferred == detectPreferredFromRegistry(HKEY_LOCAL_MACHINE, probe.architecture)

\* C9: autoDetect returns the valid registry-preferred record of the current
\* user if there is one, else the valid one of the machine-wide scope if
\* there is one, whatever preferredOnly is and whatever the full scan holds.
C9_RegistryPreferredFirst ==
    (probe.op = "autoDetect") =>
        /\ isValid(CurrentUserPreferred) => probe.out = CurrentUserPreferred
        /\ (~isValid(CurrentUserPreferred) /\ isValid(LocalMachinePreferred)) =>
              probe.out = LocalMachinePreferred

\* the current user's entry was returned although the machine-wide entry
\* and the full scan hold a higher version
C9_Witness ==
    /\ probe.op = "autoDetect"
    /\ isValid(CurrentUserPreferred) /\ probe.out = CurrentUserPreferred
    /\ isValid(LocalMachinePreferred)
    /\ versionAbove(LocalMachinePreferred.version, probe.out.version)
    /\ \E i \in 1..Len(allRVersions(<<>>)) :
          /\ allRVersions(<<>>)[i].arch = probe.architecture
          /\ versionAbove(allRVersions(<<>>)[i].version, probe.out.version)

\* autoDetect reached the full scan
FullScan ==
    /\ probe.op = "autoDetect"
    /\ ~probe.preferredOnly
    /\ ~isValid(preferredOf(probe.architecture))

\* the valid records of the requested architecture among those the
\* environment, registry and directory-tree enumerators find
FoundOfArch ==
    {r \in {enumerated(<<>>)[i] : i \in 1..Len(enumerated(<<>>))} :
        isValid(r) /\ r.arch = probe.architecture}

C10_First ==
    FullScan => probe.out = firstOfArch(allRVersions(<<>>), probe.architecture)

C10_Greatest ==
    (FullScan /\ ~isEmpty(probe.out)) =>
        \A r \in FoundOfArch : ~versionAbove(r.version, probe.out.version)

\* scenario A: no R_HOME, nothing in the registry, one valid 64-bit
\* installation in the directory tree
C10_ScenarioA ==
    (/\ FullScan
     /\ probe.architecture = ArchX64
     /\ env.R_HOME = <<>>
     /\ enumRegistry(<<>>) = <<>>
     /\ \E r \in FoundOfArch : \A q \in FoundOfArch : equals(q, r)) =>
        \E r \in FoundOfArch : equals(probe.out, r)

\* C10: when autoDetect reaches the full scan it returns the first record
\* of allRVersions() of the requested architecture, no valid record of that
\* architecture found by the enumerators has a greater packed version, and
\* in scenario A it returns the one directory-tree hit.
C10_FullScanReturnsGreatest ==
    C10_First /\ C10_Greatest /\ C10_ScenarioA

\* C11: autoDetect with preferredOnly returns the empty record whenever
\* neither registry scope yields a valid preferred record, whatever the
\* full scan would find.
C11_PreferredOnlyNeverScans ==
    (/\ probe.op = "autoDetect"
     /\ probe.preferredOnly
     /\ ~isValid(CurrentUserPreferred)
     /\ ~isValid(LocalMachinePreferred)) => isEmpty(probe.out)

\* nothing was returned although the full scan holds a record of the
\* requested architecture
C11_Witness ==
    /\ probe.op = "autoDetect"
    /\ probe.preferredOnly
    /\ ~isValid(CurrentUserPreferred)
    /\ ~isValid(LocalMachinePreferred)
    /\ isEmpty(probe.out)
    /\ ~isEmpty(firstOfArch(allRVersions(<<>>), probe.architecture))

-----------------------------------------------------------------------------
(* Properties of the registry-preferred lookup *)

\* the registry-preferred lookup on its own: autoDetect with preferredOnly
PreferredLookup == probe.op = "autoDetect" /\ probe.preferredOnly

\* the records found below the install path that scope key declares in the
\* view of the requested architecture, in probe order; none when the key
\* cannot be opened or declares no install path
DeclaredIn(key) ==
    IF probe.architecture \notin {ArchX86, ArchX64} THEN <<>>
    ELSE LET flags == IF probe.architecture = ArchX86 THEN KEY_WOW64_32KEY
                      ELSE KEY_WOW64_64KEY
             regKey == regOpen(key, flags)
         IN  IF regKey.open # "ok" \/ regKey.InstallPath = <<>> THEN <<>>
             ELSE probeDirs(regKey.InstallPath, << <<"bin">>, <<"bin", "x64">> >>)

\* current-user scope first, then machine-wide scope
Declared == DeclaredIn(HKEY_CURRENT_USER) \o DeclaredIn(HKEY_LOCAL_MACHINE)

ValidDeclared == {i \in 1..Len(Declared) : isValid(Declared[i])}

C12_OnlyDeclaredPath ==
    (PreferredLookup /\ ~isEmpty(probe.out)) =>
        \E i \in 1..Len(Declared) : Declared[i] = probe.out

C12_FirstValid ==
    (PreferredLookup /\ ValidDeclared # {}) =>
        probe.out = Declared[CHOOSE i \in ValidDeclared : \A j \in ValidDeclared : i <= j]

C12_NoneOnlyIfNoneValid ==
    (PreferredLookup /\ isEmpty(probe.out)) => ValidDeclared = {}

\* C12: the registry-preferred lookup returns only records probed below the
\* install path a scope declares in the requested view; it returns the first
\* valid one of them, current-user scope before machine-wide scope and bin
\* before bin/x64; and it returns none only when none of them is valid.
C12_PreferredIsFirstValidDeclared ==
    C12_OnlyDeclaredPath /\ C12_FirstValid /\ C12_NoneOnlyIfNoneValid

-----------------------------------------------------------------------------
(* Properties of allRVersions (allCandidates) *)

\* C13: every record of the list allRVersions returns is valid and of
\* architecture X64, whatever the seed and the host hold.
C13_AllValidAndX64 ==
    (probe.op = "allRVersions") =>
        \A i \in 1..Len(probe.list) :
            isValid(probe.list[i]) /\ probe.list[i].arch = ArchX64

\* a list was returned from which a seed record that is invalid, a seed
\* record that is valid but not X64, and an enumerated record that is valid
\* but not X64 were dropped
C13_Witness ==
    /\ probe.op = "allRVersions"
    /\ probe.list # <<>>
    /\ \E i \in 1..Len(probe.versions) : ~isValid(probe.versions[i])
    /\ \E i \in 1..Len(probe.versions) :
          isValid(probe.versions[i]) /\ probe.versions[i].arch # ArchX64
    /\ \E i \in 1..Len(enumerated(<<>>)) :
          isValid(enumerated(<<>>)[i]) /\ enumerated(<<>>)[i].arch \in {ArchX86, ArchUnknown}

\* the records the sources and the seed yield that pass both filters
Surviving ==
    {r \in {enumerated(probe.versions)[i] : i \in 1..Len(enumerated(probe.versions))} :
        isValid(r) /\ r.arch = ArchX64}

\* C14: no two records of the list allRVersions returns have directories
\* that are equal without regard to case.
C14_NoTwoEqualBinDirs ==
    (probe.op = "allRVersions") =>
        \A i, j \in 1..Len(probe.list) :
            i # j => compareCI(probe.list[i].binDir, probe.list[j].binDir) # 0

\* one installation came from the seed and from a source under directories
\* that differ in case only, a second installation was found too, and the
\* list holds one record for each
C14_Witness ==
    /\ probe.op = "allRVersions"
    /\ \E i \in 1..Len(probe.versions) : \E r \in Surviving :
          /\ isValid(probe.versions[i]) /\ probe.versions[i].arch = ArchX64
          /\ r.binDir # probe.versions[i].binDir
          /\ Fold(r.binDir) = Fold(probe.versions[i].binDir)
    /\ Len(probe.list) = 2

-----------------------------------------------------------------------------
(* Properties of RVersion::compareTo *)

\* C16: a record whose packed version is the greater one as an unsigned
\* 32-bit value sorts before the other (compareTo negative), whatever the
\* other fields hold.
C16_GreaterVersionSortsFirst ==
    (probe.op = "compareTo" /\ versionAbove(probe.a.version, probe.b.version)) =>
        probe.ab < 0

\* the sign the claimed keys give: version descending, then homeDir without
\* regard to case ascending, then architecture (0 here only if equal), then
\* binDir without regard to case ascending
keySign(a, b) ==
    IF a.version # b.version
    THEN (IF versionAbove(a.version, b.version) THEN -1 ELSE 1)
    ELSE IF compareCI(a.homeDir, b.homeDir) # 0 THEN sign(compareCI(a.homeDir, b.homeDir))
    ELSE IF a.arch # b.arch THEN sign(b.arch - a.arch)
    ELSE sign(compareCI(a.binDir, b.binDir))

C17_Antisymmetric ==
    (probe.op = "compareTo") => sign(probe.ab) = -sign(probe.ba)

C17_Transitive ==
    (probe.op = "compareTo" /\ probe.ab < 0 /\ probe.bc < 0) => probe.ac < 0

C17_Comparable ==
    (probe.op = "compareTo") =>
        \/ (probe.ab < 0 /\ ~(probe.ba < 0) /\ probe.ab # 0)
        \/ (probe.ba < 0 /\ ~(probe.ab < 0) /\ probe.ba # 0)
        \/ (probe.ab = 0 /\ probe.ba = 0)

C17_KeysInOrder ==
    (probe.op = "compareTo") =>
        /\ (probe.a.version # probe.b.version \/
            compareCI(probe.a.homeDir, probe.b.homeDir) # 0 \/
            probe.a.arch = probe.b.arch) => sign(probe.ab) = keySign(probe.a, probe.b)
        /\ probe.ab = 0 <=> keySign(probe.a, probe.b) = 0

\* C17: compareTo is a total order on records: antisymmetric, transitive,
\* any two records comparable, decided by version descending, then homeDir
\* without regard to case, then architecture, then binDir without regard to
\* case.
C17_TotalOrder ==
    C17_Antisymmetric /\ C17_Transitive /\ C17_Comparable /\ C17_KeysInOrder

-----------------------------------------------------------------------------
(* Properties of getArch *)

\* getArch was called on a file that is there and was opened
ArchRead == probe.op = "getArch" /\ probe.exists /\ probe.opens

\* the file holds the whole offset field at 0x3C
HasOffset == Len(probe.data) >= e_lfanew + 4

\* the header offset the file holds
OffsetInFile ==
    probe.data[e_lfanew + 1] + 256 * probe.data[e_lfanew + 2]
        + 65536 * probe.data[e_lfanew + 3] + 16777216 * probe.data[e_lfanew + 4]

HasSignature == HasOffset /\ Len(probe.data) >= OffsetInFile + 4

HasMachine == HasOffset /\ Len(probe.data) >= OffsetInFile + 6

\* the four bytes at the header offset are those of 0x00004550
SignatureMatches ==
    /\ HasSignature
    /\ probe.data[OffsetInFile + 1] = 80 /\ probe.data[OffsetInFile + 2] = 69
    /\ probe.data[OffsetInFile + 3] = 0 /\ probe.data[OffsetInFile + 4] = 0

MachineInFile == probe.data[OffsetInFile + 5] + 256 * probe.data[OffsetInFile + 6]

\* C18: on a file that holds the signature 0x00004550 at the offset found at
\* 0x3C and the whole machine type behind it, getArch returns X86 for machine
\* type 0x014C, X64 for 0x8664 and Unknown for any other.
C18_MachineTypeMapped ==
    (ArchRead /\ SignatureMatches /\ HasMachine) =>
        probe.out = (IF MachineInFile = 332 THEN ArchX86
                     ELSE IF MachineInFile = 34404 THEN ArchX64
                     ELSE ArchUnknown)

\* a 64-bit header found at an offset other than 64 in a file that ends
\* with the machine type
C18_Witness ==
    /\ ArchRead /\ SignatureMatches /\ HasMachine
    /\ OffsetInFile = 128
    /\ Len(probe.data) = OffsetInFile + 6
    /\ probe.out = ArchX64

\* C19: getArch returns None for a missing file, a file that cannot be
\* opened, a file too short for the offset field, the signature or the
\* machine type, and a file whose signature is not 0x00004550, whatever the
\* variables of the reads that fell short held before.
C19_UnreadableIsNone ==
    (probe.op = "getArch" /\
     (~probe.exists \/ ~probe.opens \/ ~HasMachine \/ ~SignatureMatches)) =>
        probe.out = ArchNone

\* the file ends in the middle of the signature, the two bytes it holds
\* and what header held before make 0x00004550, and arch held the machine
\* type of a 32-bit binary
C19_Witness ==
    /\ ArchRead /\ HasOffset
    /\ Len(probe.data) = OffsetInFile + 2
    /\ probe.data[OffsetInFile + 1] = 80 /\ probe.data[OffsetInFile + 2] = 69
    /\ probe.u2 = signatureBytes
    /\ probe.u3 = <<76, 1>>
    /\ probe.out = ArchNone

-----------------------------------------------------------------------------
(* Properties of confirmMinVersion *)

\* C20: confirmMinVersion is true exactly when the high half of the version
\* is above major, or equals major with the low half at least minor; so it
\* is false when the high half is below major, true for 0x00040002 against
\* (4, 1), false for every major-3 version against (4, 1), and true for
\* 0x00050000 against (4, 1).
C20_MinimumByMajorThenMinor ==
    (probe.op = "confirmMinVersion") =>
        /\ probe.out <=> (\/ probe.version[1] > probe.major
                          \/ (probe.version[1] = probe.major /\
                              probe.version[2] >= probe.minor))
        /\ probe.version[1] < probe.major => ~probe.out
        /\ (probe.major = 4 /\ probe.minor = 1) =>
              /\ probe.version = <<4, 2>> => probe.out
              /\ probe.version[1] = 3 => ~probe.out
              /\ probe.version = <<5, 0>> => probe.out

\* version 5.0 was found sufficient against (4, 1) although its low half
\* is below the required one
C20_Witness ==
    /\ probe.op = "confirmMinVersion"
    /\ probe.version = <<5, 0>> /\ probe.major = 4 /\ probe.minor = 1
    /\ probe.out

-----------------------------------------------------------------------------
(* Properties of RVersion::isValid *)

\* a file R.dll is in the directory the record names, whatever the case the
\* directory is spelled in
DllThere ==
    \E d \in DOMAIN env.files :
        /\ env.files[d].present
        /\ Fold(d) = Fold(IF isAbsolute(probe.binDir) THEN probe.binDir
                          ELSE env.cwd \o probe.binDir)

\* the version of the record is at least 3.1, the required one
VersionEnough ==
    \/ probe.out.version[1] > 3
    \/ probe.out.version[1] = 3 /\ probe.out.version[2] >= 1

\* C21: a record is valid exactly if its binDir is not empty, its homeDir
\* is not empty, R.dll exists in binDir and its version passes the minimum
\* check; a record of an empty binDir has an empty homeDir, version 0 and
\* architecture None and is not valid.
C21_ValidIffFourConditions ==
    (probe.op = "validate") =>
        /\ probe.valid <=> (/\ probe.out.binDir # <<>>
                            /\ probe.out.homeDir # <<>>
                            /\ DllThere
                            /\ VersionEnough)
        /\ probe.binDir = <<>> =>
              /\ probe.out.homeDir = <<>>
              /\ probe.out.version = <<0, 0>>
              /\ probe.out.arch = ArchNone
              /\ ~probe.valid

\* a record whose R.dll is there and recent enough is not valid because
\* its home directory could not be derived
C21_Witness ==
    /\ probe.op = "validate"
    /\ probe.binDir # <<>> /\ DllThere /\ VersionEnough
    /\ probe.out.homeDir = <<>>
    /\ ~probe.valid

-----------------------------------------------------------------------------
(* Properties of binDirToHomeDir *)

\* the directory starts at a drive
Absolute == Len(probe.binDir) >= 1 /\ probe.binDir[1] \in {"C:", "c:"}

LastSegment == IF Len(probe.binDir) >= 2 THEN probe.binDir[Len(probe.binDir)] ELSE ""

SecondLastSegment ==
    IF Len(probe.binDir) >= 3 THEN probe.binDir[Len(probe.binDir) - 1] ELSE ""

\* C26: homeDir is the parent of an absolute binDir that ends in bin, the
\* grandparent of an absolute binDir that ends in bin and the
\* architecture-specific child, and empty for an empty or non-absolute
\* binDir and for one with bin at neither level.
C26_HomeDirFromBinDir ==
    (probe.op = "binDirToHomeDir") =>
        /\ (Absolute /\ LastSegment = "bin") =>
              probe.out = SubSeq(probe.binDir, 1, Len(probe.binDir) - 1)
        /\ (Absolute /\ LastSegment = "x64" /\ SecondLastSegment = "bin") =>
              probe.out = SubSeq(probe.binDir, 1, Len(probe.binDir) - 2)
        /\ (probe.binDir = <<>> \/ ~Absolute) => probe.out = <<>>
        /\ (LastSegment # "bin" /\ SecondLastSegment # "bin") => probe.out = <<>>

\* the grandparent was returned for a directory bin/x64
C26_Witness ==
    /\ probe.op = "binDirToHomeDir"
    /\ probe.binDir = <<"C:", "R", "bin", "x64">>
    /\ probe.out = <<"C:", "R">>

-----------------------------------------------------------------------------
(* Properties of the enumerators *)

\* the records of the seed and of the registry-seeded and directory-tree
\* enumerators: all sources but the environment-seeded one
OtherSources == enumProgramFiles(enumRegistry(probe.versions))

\* C22: with R_HOME unset or empty the environment-seeded enumerator adds
\* nothing: every record allRVersions returns comes from the seed, the
\* registry or the program-files directories, whatever is below the
\* current directory.
C22_EmptyRHomeAddsNothing ==
    (probe.op = "allRVersions" /\ env.R_HOME = <<>>) =>
        \A i \in 1..Len(probe.list) :
            \E j \in 1..Len(OtherSources) : equals(probe.list[i], OtherSources[j])

\* how opening the key Software/R-core/R ended in the scope and view of the call
Opened ==
    env.reg[<<probe.key, IF probe.architecture = ArchX86 THEN "32" ELSE "64">>].open

\* C23: when the key is not found the registry-seeded sources add no record
\* and log nothing; on any other error of opening it they log the error and
\* add no record; either way the list is as it was and the caller goes on.
C23_RegistryFailuresAreEmpty ==
    /\ (probe.op = "enumRegistry" /\ Opened = "notfound") =>
          probe.list = probe.versions /\ probe.log = <<>>
    /\ (probe.op = "enumRegistry" /\ Opened = "error") =>
          probe.list = probe.versions /\ Len(probe.log) = 1
    /\ (probe.op = "detectPreferredFromRegistry" /\ Opened = "notfound") =>
          probe.out.binDir = <<>> /\ probe.log = <<>>
    /\ (probe.op = "detectPreferredFromRegistry" /\ Opened = "error") =>
          probe.out.binDir = <<>> /\ Len(probe.log) = 1

\* a list that held a record came back as it was, with one error logged
C23_Witness ==
    /\ probe.op = "enumRegistry" /\ Opened = "error"
    /\ probe.versions # <<>> /\ probe.list = probe.versions
    /\ probe.log = <<[key |-> "HKLM", failed |-> "open"]>>

\* C25: of two records of equal version and of homeDirs equal without
\* regard to case, the one of architecture X64 sorts before the one of any
\* other architecture.
C25_X64First ==
    (/\ probe.op = "compareTo"
     /\ probe.a.version = probe.b.version
     /\ compareCI(probe.a.homeDir, probe.b.homeDir) = 0
     /\ probe.a.arch = ArchX64
     /\ probe.b.arch \in {ArchNone, ArchX86, ArchUnknown}) => probe.ab < 0

\* the same for the architectures None and X86 only
C25_X64BeforeNoneAndX86 ==
    (/\ probe.op = "compareTo"
     /\ probe.a.version = probe.b.version
     /\ compareCI(probe.a.homeDir, probe.b.homeDir) = 0
     /\ probe.a.arch = ArchX64
     /\ probe.b.arch \in {ArchNone, ArchX86}) => probe.ab < 0

\* the two records can come from one environment: if they name the same
\* directory they were read from the same R.dll
SameEnvironment ==
    Fold(probe.a.binDir) = Fold(probe.b.binDir) =>
        probe.a.version = probe.b.version /\ probe.a.arch = probe.b.arch

\* C29: for two records of one environment compareTo gives 0 exactly if
\* operator== holds, that is if their binDirs are equal without regard to
\* case.
C29_CompareZeroIffEqual ==
    (probe.op = "compareTo" /\ SameEnvironment) =>
        (probe.ab = 0 <=> equals(probe.a, probe.b))

\* C27: every non-empty record a call of detectRVersion returns, whatever
\* forceUi, the previous choice, the host and the answers of the dialog, is
\* valid and 64-bit; a previous choice that is not 64-bit is never returned.
C27_ReturnedIsValidX64 ==
    (pc = "done" /\ ~isEmpty(result)) =>
        /\ isValid(result)
        /\ result.arch = ArchX64
        /\ (Stored.arch # ArchX64 => result # Stored)

\* a call found a valid 32-bit previous choice and returned another record
C27_Witness ==
    /\ pc = "done" /\ ~isEmpty(result)
    /\ isValid(Stored) /\ Stored.arch = ArchX86
    /\ result.arch = ArchX64

\* C28: detectRVersion writes the options only when the dialog is accepted:
\* a call that ends without an accepted answer (a valid tentative candidate,
\* a record of autoDetect, or the dialog abandoned) leaves rBinDir and the
\* rendering engine as they were at the call, and the step on which a frame
\* returns without an accepted answer changes neither.
C28_WritesOnlyOnAcceptance ==
    /\ []((pc = "done" /\ depth = 0 /\ hist.answer.kind # "accept") =>
             (rBinDir = hist.pref /\ renderingEngine = hist.engine))
    /\ [][(pc' = "done" /\ hist'.answer.kind # "accept") =>
             (rBinDir' = rBinDir /\ renderingEngine' = renderingEngine)]_vars

\* the dialog, shown for a previous choice that is not 64-bit, was abandoned
\* and the choice is still stored
C28_Witness ==
    /\ pc = "done" /\ depth = 0 /\ hist.answer.kind = "abandon"
    /\ hist.pref # <<>> /\ ~IsTentative
    /\ rBinDir = hist.pref

-----------------------------------------------------------------------------
(* Properties of main *)

C30_ResolveIsRepeatable ==
    /\ probe.at = "main" => pc \in {"idle", "done"}
    /\ (probe.at = "main" /\ pc = "done") =>
           /\ result = probe.first
           /\ hist.nBridge = 0
           /\ hist.nWrites = 0
           /\ rBinDir = hist.pref
           /\ renderingEngine = hist.engine
    /\ probe.at = "launched" => probe.second = probe.first

\* the first call showed the dialog and returned a record, and the call of
\* main returned the same record
C30_Witness ==
    /\ probe.at = "main" /\ pc = "done"
    /\ probe.asked
    /\ ~isEmpty(probe.first)
    /\ result = probe.first

====
